---- MODULE Spec2Model ----
(***************************************************************************)
(* neptune-client, notebook API: the Notebook facade of neptune/notebook.py *)
(* and neptune/notebooks.py and the Checkpoint record of                   *)
(* neptune/checkpoint.py, run against the remote service behind            *)
(* self._client.                                                           *)
(*                                                                         *)
(* The state is the service's checkpoint catalog, the outcome of the most   *)
(* recent Notebook call (its arguments, return value, raised exception, the *)
(* client calls it issued and the warnings it printed) and the state of the *)
(* file handle add_checkpoint opened.  One action per method.               *)
(***************************************************************************)
EXTENDS Integers, Sequences, FiniteSets, TLC

VARIABLES
    checkpoints,   \* the service's catalog: the set of known checkpoint rows
    before,        \* the catalog as it was when the most recent call was entered
    created,       \* number of checkpoints created through create_checkpoint
    last,          \* the most recent call: [op, self, args, ret, exc]
    calls,         \* the client calls the most recent call issued, in order
    warnings,      \* the warnings the most recent call printed
    handle,        \* file handle of the most recent add_checkpoint: none/open/closed
    lastAdded      \* notebook id -> {the Checkpoint its latest successful add returned}

vars == <<checkpoints, before, created, last, calls, warnings, handle, lastAdded>>

----------------------------------------------------------------------------
(* Bounds *)

\* how many checkpoints create_checkpoint may add in one behaviour
MaxCreated == 2

----------------------------------------------------------------------------
(* Python values *)

None == "<None>"

\* a value that may be None, a str or a list of str
PyNone == [kind |-> "None", v |-> <<>>]
PyStr(s) == [kind |-> "str", v |-> <<s>>]
PyList(seq) == [kind |-> "list", v |-> seq]

\* return values
RetNone == [kind |-> "None"]
RetStr(s) == [kind |-> "str", s |-> s]
RetCheckpoint(c) == [kind |-> "Checkpoint", c |-> c]

----------------------------------------------------------------------------
(* neptune/checkpoint.py *)

Checkpoint(_id, _notebook_id, _name, _description, _path) ==
    [id |-> _id, notebook_id |-> _notebook_id, name |-> _name,
     description |-> _description, path |-> _path]

----------------------------------------------------------------------------
(* Notebook objects: Notebook(client, project, _id, owner) *)

Project == "project"

Notebook(client, project, _id, owner) ==
    [client |-> client, project |-> project, id |-> _id, owner |-> owner]

\* two notebooks of the project; they share a name on the service
\* ("Neptune allows you to have multiple notebooks ... with the same name")
Notebooks ==
    { Notebook("client", Project, "nb1", "james"),
      Notebook("client", Project, "nb2", "andrey") }

NotebookIds == { n.id : n \in Notebooks }

OwnerOf(nb_id) == (CHOOSE n \in Notebooks : n.id = nb_id).owner

\* the name both notebooks carry on the service
NotebookName == "my-notebook"

----------------------------------------------------------------------------
(* The file system seen by add_checkpoint *)

Cwd == "/cwd"

AbsolutePaths == { "/cwd/file.ipynb" }

\* the files that exist
Files == { "/cwd/file.ipynb" }

\* the file_path arguments tried
FilePaths == { None, "file.ipynb", "/cwd/file.ipynb", "gone.ipynb" }

\* os.path.abspath: an absolute path is kept, a relative one is joined to the cwd
abspath(p) == IF p \in AbsolutePaths THEN p ELSE Cwd \o "/" \o p

\* os.path.exists / isfile on a path argument
FileExists(p) == p # None /\ abspath(p) \in Files

----------------------------------------------------------------------------
(* The remote service behind self._client *)

\* a row of the service's catalog: the Checkpoint fields plus what the service
\* keeps about it (tags, creation time, the owning notebook's name and owner)
Row(_id, _notebook_id, _name, _path, _tags, _created_at) ==
    [id |-> _id, notebook_id |-> _notebook_id, name |-> _name,
     description |-> None, path |-> _path, tags |-> _tags,
     created_at |-> _created_at, notebook_name |-> NotebookName,
     owner |-> OwnerOf(_notebook_id)]

ToCheckpoint(r) == Checkpoint(r.id, r.notebook_id, r.name, r.description, r.path)

\* checkpoints that may exist on the service before the first call: tagged
\* {a}, {b}, {a,b}, {c}, all named "viz"; two of them created at the same time
SeedCheckpoints ==
    { Row(1, "nb1", "viz", "/seed/1.ipynb", {"a"},      1),
      Row(2, "nb1", "viz", "/seed/2.ipynb", {"b"},      2),
      Row(3, "nb1", "viz", "/seed/3.ipynb", {"a", "b"}, 2),
      Row(4, "nb2", "viz", "/seed/4.ipynb", {"c"},      3) }

SeedIds == { r.id : r \in SeedCheckpoints }
SeedTimes == { r.created_at : r \in SeedCheckpoints }
MaxOf(S) == CHOOSE x \in S : \A y \in S : y <= x

\* the name the service gives a checkpoint created without one
TimestampName(t) == "ts" \o ToString(t)

\* create_checkpoint(notebook_id, jupyter_path, _file): the row the service adds
\* as its n-th created checkpoint; the call carries no name and no tags
client_create_checkpoint(notebook_id, jupyter_path, n) ==
    Row(MaxOf(SeedIds) + n, notebook_id, TimestampName(MaxOf(SeedTimes) + n),
        jupyter_path, {}, MaxOf(SeedTimes) + n)

\* get_last_checkpoint(project, notebook_id): the checkpoints the service may
\* answer with, the most recently created of the notebook (any of them on a tie)
client_get_last_checkpoint(project, notebook_id, catalog) ==
    LET mine == { r \in catalog : r.notebook_id = notebook_id }
    IN  { ToCheckpoint(r) : r \in { x \in mine : \A y \in mine : y.created_at <= x.created_at } }

Call(fn, args, outcome) == [fn |-> fn, args |-> args, outcome |-> outcome]

----------------------------------------------------------------------------
(* neptune.utils.validate_notebook_path and the file handle *)

\* raises ValidationError unless the path references an existing file
validate_notebook_path(file_path) ==
    IF FileExists(file_path) THEN "ok" ELSE "ValidationError"

\* open(file_path): the handle is opened, or open itself raises
open(file_path) ==
    IF FileExists(file_path) THEN { "open", "IOError" } ELSE { "IOError" }

\* (mutant) the handle is closed only on the normal return path
file_exit_leaks(h, exc) == IF exc = None THEN "closed" ELSE h

\* leaving the with block: __exit__ closes the handle whether or not the block
\* raised (exc is the exception leaving the block, None on a normal return)
file_exit(h, exc) == "closed"

----------------------------------------------------------------------------
(* Initial state *)

NoCall == [op |-> "none", self |-> None, args |-> <<>>, ret |-> RetNone, exc |-> None]

Init ==
    /\ checkpoints \in SUBSET SeedCheckpoints
    /\ before = checkpoints
    /\ created = 0
    /\ last = NoCall
    /\ calls = <<>>
    /\ warnings = {}
    /\ handle = "none"
    /\ lastAdded = [nb \in NotebookIds |-> {}]

----------------------------------------------------------------------------
(* Outcome of a call *)

Returned(op, self, args, ret) ==
    [op |-> op, self |-> self, args |-> args, ret |-> ret, exc |-> None]

Raised(op, self, args, exc) ==
    [op |-> op, self |-> self, args |-> args, ret |-> RetNone, exc |-> exc]

\* a method whose body is `pass`: nothing is called, nothing is printed, the
\* call returns None
pass(op, self, args) ==
    /\ last' = Returned(op, self, args, RetNone)
    /\ before' = checkpoints
    /\ calls' = <<>>
    /\ warnings' = {}
    /\ UNCHANGED <<checkpoints, created, handle, lastAdded>>

\* an exception raised before the client is reached and before a file is open
raise_early(op, self, args, exc) ==
    /\ last' = Raised(op, self, args, exc)
    /\ before' = checkpoints
    /\ calls' = <<>>
    /\ warnings' = {}
    /\ handle' = "none"
    /\ UNCHANGED <<checkpoints, created, lastAdded>>

----------------------------------------------------------------------------
(* Notebook.add_checkpoint *)

\* with open(file_path) as f:
\*     return self._client.create_checkpoint(self.id, os.path.abspath(file_path), f)
with_open(op, self, args, file_path) ==
    \E h \in open(file_path) :
        IF h = "IOError"
        THEN raise_early(op, self, args, "IOError")
        ELSE \E outcome \in {"RemoteError"} \cup (IF created < MaxCreated THEN {"ok"} ELSE {}) :
               LET row == client_create_checkpoint(self.id, abspath(file_path), created + 1)
                   exc == IF outcome = "ok" THEN None ELSE outcome
               IN  /\ before' = checkpoints
                   /\ warnings' = {}
                   /\ calls' = << Call("create_checkpoint",
                                       <<self.id, abspath(file_path), "f">>, outcome) >>
                   /\ handle' = file_exit(h, exc)
                   /\ IF outcome = "ok"
                      THEN /\ checkpoints' = checkpoints \cup {row}
                           /\ created' = created + 1
                           /\ lastAdded' = [lastAdded EXCEPT ![self.id] = {ToCheckpoint(row)}]
                           /\ last' = Returned(op, self, args, RetCheckpoint(ToCheckpoint(row)))
                      ELSE /\ UNCHANGED <<checkpoints, created, lastAdded>>
                           /\ last' = Raised(op, self, args, exc)

\* (mutant) the with block is entered without validating the path
upload_unvalidated(op, self, args, file_path) ==
    with_open(op, self, args, file_path)

\* validate_notebook_path(file_path), then the with block
upload(op, self, args, file_path) ==
    IF validate_notebook_path(file_path) # "ok"
    THEN raise_early(op, self, args, validate_notebook_path(file_path))
    ELSE with_open(op, self, args, file_path)

TagArgs == { PyNone, PyStr("a"), PyList(<<"a", "b">>) }
NameArgs == { None, "viz" }
DescriptionArgs == { "notes" }

\* neptune/notebook.py
add_checkpoint(self, file_path, tag, name) ==
    /\ upload("add_checkpoint", self,
           [file_path |-> file_path, tag |-> tag, name |-> name], file_path)

\* neptune/notebooks.py
notebooks_add_checkpoint(self, file_path, name, description) ==
    /\ upload("add_checkpoint", self,
           [file_path |-> file_path, name |-> name, description |-> description],
           file_path)

----------------------------------------------------------------------------
(* Notebook.get_path, Notebook.get_name *)

\* (mutant) the answer comes from the catalog as it was at the previous call
last_checkpoint_field_cached(op, self, field) ==
    /\ before' = checkpoints
    /\ warnings' = {}
    /\ UNCHANGED <<checkpoints, created, handle, lastAdded>>
    /\ \/ /\ calls' = << Call("get_last_checkpoint", <<self.project, self.id>>, "RemoteError") >>
          /\ last' = Raised(op, self, <<>>, "RemoteError")
       \/ \E c \in client_get_last_checkpoint(self.project, self.id, before) :
             /\ calls' = << Call("get_last_checkpoint", <<self.project, self.id>>, "ok") >>
             /\ last' = Returned(op, self, <<>>, RetStr(c[field]))

\* self._client.get_last_checkpoint(self._project, self._id), then the field
\* `field` of what it returned; a failure of the client reaches the caller
last_checkpoint_field(op, self, field) ==
    /\ before' = checkpoints
    /\ warnings' = {}
    /\ UNCHANGED <<checkpoints, created, handle, lastAdded>>
    /\ \/ /\ calls' = << Call("get_last_checkpoint", <<self.project, self.id>>, "RemoteError") >>
          /\ last' = Raised(op, self, <<>>, "RemoteError")
       \/ \E c \in client_get_last_checkpoint(self.project, self.id, checkpoints) :
             /\ calls' = << Call("get_last_checkpoint", <<self.project, self.id>>, "ok") >>
             /\ last' = Returned(op, self, <<>>, RetStr(c[field]))

get_path(self) == /\ last_checkpoint_field("get_path", self, "path")

get_name(self) == /\ last_checkpoint_field("get_name", self, "name")

----------------------------------------------------------------------------
(* The methods whose body is `pass` *)

CheckpointArgs == { "viz", "draft" }
OwnerArgs == { None, "james" }
CheckpointIdArgs == { PyNone, PyStr(3), PyList(<<1, 3>>) }

list_tags(self, notebook_name, owner) ==
    /\ pass("list_tags", self, [notebook_name |-> notebook_name, owner |-> owner])

list_checkpoints(self, notebook_name, tag, owner) ==
    /\ pass("list_checkpoints", self,
         [notebook_name |-> notebook_name, tag |-> tag, owner |-> owner])

download_checkpoint(self, destination_dir, notebook_name, checkpoint, tag, owner) ==
    /\ pass("download_checkpoint", self,
         [destination_dir |-> destination_dir, notebook_name |-> notebook_name,
          checkpoint |-> checkpoint, tag |-> tag, owner |-> owner])

remove_checkpoint(self, notebook_name, checkpoint, tag, owner) ==
    /\ pass("remove_checkpoint", self,
         [notebook_name |-> notebook_name, checkpoint |-> checkpoint,
          tag |-> tag, owner |-> owner])

get_checkpoints(self, checkpoint_id) ==
    /\ pass("get_checkpoints", self, [checkpoint_id |-> checkpoint_id])

\* Checkpoint.download
download(self, destination_path) ==
    /\ pass("download", self, [destination_path |-> destination_path])

----------------------------------------------------------------------------
(* Specification *)

\* the notebook object the catalog queries are called on
Caller == CHOOSE n \in Notebooks : n.id = "nb1"

AddCheckpoint ==
    \E self \in Notebooks, file_path \in FilePaths, name \in NameArgs :
        add_checkpoint(self, file_path, PyList(<<"a", "b">>), name)

NotebooksAddCheckpoint ==
    \E self \in Notebooks, file_path \in FilePaths, name \in NameArgs,
       description \in DescriptionArgs :
        notebooks_add_checkpoint(self, file_path, name, description)

GetPath == \E self \in Notebooks : get_path(self)

GetName == \E self \in Notebooks : get_name(self)

ListTags ==
    \E owner \in {PyNone, PyStr("james")} :
        list_tags(Caller, PyNone, owner)

ListCheckpoints ==
    \E tag \in TagArgs, owner \in {PyNone, PyStr("james")} :
        list_checkpoints(Caller, PyStr(NotebookName), tag, owner)

DownloadCheckpoint ==
    \E checkpoint \in {None, "viz"}, tag \in TagArgs, owner \in OwnerArgs :
        download_checkpoint(Caller, "/downloads", NotebookName, checkpoint, tag, owner)

RemoveCheckpoint ==
    \E checkpoint \in CheckpointArgs, tag \in TagArgs, owner \in OwnerArgs :
        remove_checkpoint(Caller, NotebookName, checkpoint, tag, owner)

GetCheckpoints ==
    \E checkpoint_id \in CheckpointIdArgs :
        get_checkpoints(Caller, checkpoint_id)

Download ==
    \E r \in checkpoints : download(ToCheckpoint(r), "/downloads/nb.ipynb")

Next ==
    \/ AddCheckpoint
    \/ NotebooksAddCheckpoint
    \/ GetPath
    \/ GetName
    \/ ListTags
    \/ ListCheckpoints
    \/ DownloadCheckpoint
    \/ RemoveCheckpoint
    \/ GetCheckpoints
    \/ Download

Spec == Init /\ [][Next]_vars

----------------------------------------------------------------------------
(* What the documented contract selects, for stating the claims *)

ElemsOf(v) == { v.v[i] : i \in 1..Len(v.v) }

IsOp(op) == last.op = op

\* download_checkpoint / remove_checkpoint: every criterion must hold, and a
\* tag list is matched by the rows carrying all of its tags
AllOfMatches(catalog, a) ==
    { r \in catalog :
        /\ r.notebook_name = a.notebook_name
        /\ a.checkpoint # None => r.name = a.checkpoint
        /\ ElemsOf(a.tag) \subseteq r.tags
        /\ a.owner # None => r.owner = a.owner }

\* list_checkpoints: every criterion must hold, and a list is matched by the
\* rows matching any one of its elements
AnyOfMatches(catalog, a) ==
    { r \in catalog :
        /\ a.notebook_name.kind # "None" => r.notebook_name \in ElemsOf(a.notebook_name)
        /\ a.tag.kind # "None" => ElemsOf(a.tag) \cap r.tags # {}
        /\ a.owner.kind # "None" => r.owner \in ElemsOf(a.owner) }

Latest(rows) == { r \in rows : \A x \in rows : x.created_at <= r.created_at }

RowOf(catalog, id) == CHOOSE r \in catalog : r.id = id

\* created_at descending, ties by id ascending
Precedes(r1, r2) ==
    \/ r1.created_at > r2.created_at
    \/ r1.created_at = r2.created_at /\ r1.id < r2.id

\* seq lists every row of the catalog once, latest first
IsRecencyOrdered(seq, catalog) ==
    /\ Len(seq) = Cardinality(catalog)
    /\ \A r \in catalog : \E i \in 1..Len(seq) : seq[i] = ToCheckpoint(r)
    /\ \A i, j \in 1..Len(seq) :
          i < j => Precedes(RowOf(catalog, seq[i].id), RowOf(catalog, seq[j].id))

CallsTo(fn) == { i \in 1..Len(calls) : calls[i].fn = fn }

----------------------------------------------------------------------------
(* Claims *)

\* C1: when remove_checkpoint's criteria match more than one checkpoint, no
\* remove call reaches the client, the catalog is unchanged and a warning
\* identifying the ambiguity is printed.
C1_AmbiguousRemoveWarns ==
    (IsOp("remove_checkpoint") /\ Cardinality(AllOfMatches(before, last.args)) > 1)
        => /\ CallsTo("remove_checkpoint") = {}
           /\ checkpoints = before
           /\ "AmbiguousSelectionWarning" \in warnings

\* C2: when remove_checkpoint's criteria match exactly one checkpoint, exactly
\* one remove call is issued, for that checkpoint's id, and afterwards that
\* checkpoint and no other is gone from the catalog.
C2_SingleMatchRemoved ==
    (IsOp("remove_checkpoint") /\ Cardinality(AllOfMatches(before, last.args)) = 1)
        => /\ Len(calls) = 1
           /\ calls[1].fn = "remove_checkpoint"
           /\ \A r \in AllOfMatches(before, last.args) : calls[1].args = <<r.id>>
           /\ checkpoints = before \ AllOfMatches(before, last.args)

\* C3: when download_checkpoint's criteria match one or more checkpoints,
\* exactly one checkpoint is fetched from the client and it is a matching
\* checkpoint with the latest created_at.
C3_LatestMatchDownloaded ==
    (IsOp("download_checkpoint") /\ AllOfMatches(before, last.args) # {})
        => /\ Len(calls) = 1
           /\ calls[1].fn = "fetch_checkpoint_content"
           /\ \E r \in Latest(AllOfMatches(before, last.args)) : calls[1].args = <<r.id>>

C5_AllCheckpointsLatestFirst ==
    (IsOp("get_checkpoints") /\ last.args.checkpoint_id = PyNone)
        => /\ last.ret.kind = "list"
           /\ IsRecencyOrdered(last.ret.v, before)

\* C6: list_checkpoints returns exactly the checkpoints satisfying every
\* supplied criterion, a list-valued criterion being satisfied by any one of
\* its elements.
C6_ListIsIntersectionAnyOf ==
    IsOp("list_checkpoints")
        => /\ last.ret.kind = "DataFrame"
           /\ { row.id : row \in last.ret.rows } = { r.id : r \in AnyOfMatches(before, last.args) }

C8_GivenNameAssigned ==
    (IsOp("add_checkpoint") /\ last.exc = None /\ last.args.name # None)
        => /\ \E i \in 1..Len(calls[1].args) : calls[1].args[i] = last.args.name
           /\ last.ret.c.name = last.args.name

\* C9: in every terminal state of add_checkpoint the file handle is not open;
\* a remote error of create_checkpoint reaches the caller as it is, after a
\* single create_checkpoint attempt.
C9_HandleClosedOnEveryExit ==
    IsOp("add_checkpoint")
        => /\ handle # "open"
           /\ Cardinality(CallsTo("create_checkpoint")) <= 1
           /\ CallsTo("create_checkpoint") # {} => handle = "closed"
           /\ \A i \in CallsTo("create_checkpoint") :
                 calls[i].outcome = "RemoteError" => last.exc = "RemoteError"

C9_Witness ==
    /\ IsOp("add_checkpoint")
    /\ Len(calls) = 1
    /\ calls[1].outcome = "RemoteError"
    /\ last.exc = "RemoteError"
    /\ handle = "closed"

\* C10: every get_path / get_name issues one get_last_checkpoint(project,
\* notebook id) and, once add_checkpoint has succeeded on the notebook, returns
\* the path (name) of the checkpoint its latest successful add created.
C10_FreshLastCheckpoint ==
    (IsOp("get_path") \/ IsOp("get_name"))
        => /\ Len(calls) = 1
           /\ calls[1].fn = "get_last_checkpoint"
           /\ calls[1].args = <<Project, last.self.id>>
           /\ last.exc = None =>
                 \A c \in lastAdded[last.self.id] :
                     last.ret.s = IF IsOp("get_path") THEN c.path ELSE c.name

C10_Witness ==
    /\ IsOp("get_name")
    /\ last.exc = None
    /\ Cardinality({ r \in checkpoints : r.notebook_id = last.self.id /\ r.id \notin SeedIds }) >= 2
    /\ \E r \in checkpoints : r.notebook_id = last.self.id /\ r.id \in SeedIds
    /\ \E c \in lastAdded[last.self.id] : last.ret.s = c.name

====
